---- MODULE Spec2Model ----
(***************************************************************************)
(* A model of kontra's modular game object: the capability fragments       *)
(* ("mods") of src/src/mods and the fragment revisions kept beside them,   *)
(* the grouping fan-out of position / camera / rotation / scale / opacity  *)
(* writes, the render transform pipeline, the ttl fragment, the motion of  *)
(* update / advance and the object Pool.                                   *)
(*                                                                         *)
(* Two revisions of the grouping design are in the repository and both are *)
(* modelled; the variable build says which one the entities are made of:   *)
(*   "mods"  - every fragment is group aware (rect, scale, opacity and     *)
(*             rotation fan out themselves; group only has addChild and    *)
(*             removeChild);                                                *)
(*   "group" - src/src/mods/group.js defines x, y, sx, sy, rotation,       *)
(*             setScale, opacity and finalOpacity beside plain fragments;  *)
(*             the composer decides which definition of a name the entity  *)
(*             ends up with.                                               *)
(* JavaScript numbers are modelled by integers plus the two values         *)
(* undefined and NaN, with the arithmetic of the language on them.         *)
(***************************************************************************)
EXTENDS Integers, Sequences, FiniteSets, TLC

\* ------------------------------------------------------------------ bounds
NumEnt == 3
MaxKids == 2
MaxSteps == 3

Ent == 1..NumEnt
None == 0
Builds == {"mods", "group"}

\* values written by the callers of the model
WriteVals == {0, 2, 5}
ClampBounds == {[a |-> 0, b |-> 0, d |-> 4, e |-> 4]}

\* ------------------------------------------------------- JavaScript numbers
Undef == -1000
NaN == -999

JsNum(v) == v # Undef /\ v # NaN
JsAdd(a, b) == IF JsNum(a) /\ JsNum(b) THEN a + b ELSE NaN
JsSub(a, b) == IF JsNum(a) /\ JsNum(b) THEN a - b ELSE NaN
JsMul(a, b) == IF JsNum(a) /\ JsNum(b) THEN a * b ELSE NaN
JsTruthy(v) == v # 0 /\ JsNum(v)
Min(a, b) == IF a <= b THEN a ELSE b
Max(a, b) == IF a >= b THEN a ELSE b

\* ------------------------------------------------------------------ state
VARIABLES
  build,      \* which revision of the fragments the entities are made of
  children,   \* children[e]: sequence of entities, insertion order
  parent,     \* parent[e]: an entity, or None (undefined / null)
  x, y,       \* stored x / y: position._x, position._y ("mods"), _x, _y ("group")
  pclamp,     \* clamp configuration of the position vector (_c, _a, _b, _d, _e)
  sx, sy,     \* camera offset _sx, _sy
  rot,        \* _rot ("mods"), _rotation ("group")
  scale,      \* scale[e] = [x |-> .., y |-> ..]
  opacity,    \* own opacity: _op ("mods"), _opacity ("group")
  fop,        \* final opacity _fop
  width, height,
  anchor,     \* anchor[e] = [x |-> .., y |-> ..]
  ttl,
  position,   \* the Vector in this.position when x and y are kept beside it
              \* ("group"); with the rect accessors ("mods") it is x, y, pclamp
  velocity,     \* velocity[e]: the Vector in this.velocity
  acceleration, \* acceleration[e]: the Vector in this.acceleration
  calls,      \* the calls the last render() made on the drawing context
  alive,      \* what the last isAlive() returned
  pool,       \* the Pool: objects (the ttl of each), size, maxSize, and what
              \* the last get() returned (an index into objects, or Undef)
  vec,        \* vec[i]: a Vector object, [x, y, cl] with cl its clamp configuration
  out,        \* the Vector the last arithmetic method returned
  again,      \* the last call repeated the call before it
  last,       \* the call made by the last step
  err,        \* "none", or the error the last call raised (uncaught)
  steps       \* number of calls made so far

vars == <<build, children, parent, x, y, pclamp, sx, sy, rot, scale, opacity, fop,
          width, height, anchor, ttl, position, velocity, acceleration, calls,
          alive, pool, vec, out, again, last, err, steps>>

\* the state the grouping calls leave alone
rest == <<width, height, anchor, ttl, position, velocity, acceleration, calls,
          alive, pool, vec, out>>

\* the build and the properties of the entities
props == <<build, children, parent, x, y, pclamp, sx, sy, rot, scale, opacity, fop,
           width, height, anchor, ttl, position, velocity, acceleration>>

\* the Vector objects an entity holds
motion == <<position, velocity, acceleration>>

\* the Vector objects held outside the entities
vectors == <<vec, out>>

NoClamp == [c |-> FALSE, a |-> 0, b |-> 0, d |-> 0, e |-> 0]
NumVec == 2
VecId == 1..NumVec
\* no Vector has been returned yet
NoVector == [x |-> Undef, y |-> Undef, cl |-> NoClamp]
Call(name, e, c, v, w, flag) ==
  [op |-> name, e |-> e, c |-> c, v |-> v, w |-> w, flag |-> flag]

\* -------------------------------------------------------------- Vector
clamp(min, max, value) ==
  IF JsNum(value) THEN Min(Max(min, value), max) ELSE NaN

\* a setter that stores what it is given
Vector_set_x_unclamped(cfg, value) == value

\* set x(value) { this._x = (this._c ? clamp(this._a, this._d, value) : value) }
Vector_set_x(cfg, value) == IF cfg.c THEN clamp(cfg.a, cfg.d, value) ELSE value
Vector_set_y(cfg, value) == IF cfg.c THEN clamp(cfg.b, cfg.e, value) ELSE value

\* constructor(x = 0, y = 0, vec = {}): the components are stored, and stored
\* again after clamp(vec._a, vec._b, vec._d, vec._e) when vec._c is set
Vector(vx, vy, cfg) ==
  LET x0 == IF vx = Undef THEN 0 ELSE vx
      y0 == IF vy = Undef THEN 0 ELSE vy
      cl == IF cfg.c THEN cfg ELSE NoClamp
  IN  [x |-> Vector_set_x(cl, x0), y |-> Vector_set_y(cl, y0), cl |-> cl]

\* add(vec) { return new Vector(this.x + vec.x, this.y + vec.y, this) }; a
\* second argument has no parameter to bind to
Vector_add(this, other, dt) ==
  Vector(JsAdd(this.x, other.x), JsAdd(this.y, other.y), this.cl)

\* subtract(vec) { return new Vector(this.x - vec.x, this.y - vec.y, this) }
Vector_subtract(this, other) ==
  Vector(JsSub(this.x, other.x), JsSub(this.y, other.y), this.cl)

\* scale(value) { return new Vector(this.x * value, this.y * value) }
Vector_scale(this, value) ==
  Vector(JsMul(this.x, value), JsMul(this.y, value), NoClamp)

Abs(v) == IF v < 0 THEN 0 - v ELSE v

\* length() { return Math.hypot(this.x, this.y) }, for a vector along an axis
Vector_length(this) ==
  IF JsNum(this.x) /\ JsNum(this.y) THEN Abs(this.x) + Abs(this.y) ELSE NaN

\* JavaScript a / b where the quotient is an integer; 0 / 0 is NaN
JsDiv(a, b) ==
  IF JsNum(a) /\ JsNum(b) /\ b # 0 THEN a \div b ELSE NaN

\* normalize(length = this.length()) {
\*   return new Vector(this.x / length, this.y / length) }
Vector_normalize(this) ==
  LET length == Vector_length(this)
  IN  Vector(JsDiv(this.x, length), JsDiv(this.y, length), NoClamp)

\* ------------------------------------------------------------ the composer
\* the fragments GameObject.init installs, in the order of its list
ModList == <<"rect", "render", "group", "acceleration", "anchor", "camera",
             "opacity", "rotation", "scale", "ttl", "velocity">>

\* the names more than one fragment may define
Names == {"x", "y", "sx", "sy", "rotation", "opacity", "finalOpacity",
          "setScale"}

\* what fragment mod of build b defines under the name n: the version that reaches the
\* children ("fanout"), the one that does not ("plain"), or nothing ("none").
\* In "mods" every fragment carries the group-aware version of its own
\* names; with group.js the group fragment carries all of them and rect,
\* opacity and scale carry the plain x and y, finalOpacity and setScale.
Defines(b, mod, n) ==
  IF b = "mods"
  THEN CASE mod = "rect" /\ n \in {"x", "y"} -> "fanout"
         [] mod = "camera" /\ n \in {"sx", "sy"} -> "fanout"
         [] mod = "opacity" /\ n \in {"opacity", "finalOpacity"} -> "fanout"
         [] mod = "rotation" /\ n = "rotation" -> "fanout"
         [] mod = "scale" /\ n = "setScale" -> "fanout"
         [] OTHER -> "none"
  ELSE CASE mod = "rect" /\ n \in {"x", "y"} -> "plain"
         [] mod = "group" /\ n \in Names -> "fanout"
         [] mod = "opacity" /\ n = "finalOpacity" -> "plain"
         [] mod = "scale" /\ n = "setScale" -> "plain"
         [] OTHER -> "none"

\* Object.hasOwnProperty(prop): whether the constructor function Object has
\* an own property of that name (its statics), whatever the entity has
Object_hasOwnProperty(prop) ==
  prop \in {"length", "name", "prototype", "assign", "create", "keys",
            "values", "entries", "freeze", "is"}

\* for (let prop in props) if (!Object.hasOwnProperty(prop))
\*   Object.defineProperty(this, prop, props[prop])
\* for the fragments from the k-th on: def[n] is the definition the entity has
\* under the name n
\* in the build b
RECURSIVE Install(_, _, _)
Install(b, def, k) ==
  IF k > Len(ModList) THEN def
  ELSE Install(b, [n \in Names |->
                     IF Defines(b, ModList[k], n) # "none"
                          /\ ~Object_hasOwnProperty(n)
                     THEN Defines(b, ModList[k], n)
                     ELSE def[n]], k + 1)

\* the definitions an entity of each build has once init has returned
Installed == [b \in Builds |-> Install(b, [m \in Names |-> "none"], 1)]

\* the definition in effect on a constructed entity
InEffect(n) == Installed[build][n]

\* a write under the name n reaches the children
FansOut(n) == InEffect(n) = "fanout"

\* ------------------------------------------------- fan-out of a number
\* A call that recurses deeper than Fuel has met an entity twice on one path:
\* the recursion of the code never ends and the engine raises RangeError.
Fuel == NumEnt + 1

\* what the setter of property p stores on entity e when value is written
StoreOf(p, e, value) ==
  IF build = "mods" /\ p = "x" THEN Vector_set_x(pclamp[e], value)
  ELSE IF build = "mods" /\ p = "y" THEN Vector_set_y(pclamp[e], value)
  ELSE value

\* a setter that hands its own new value to the child
ChildValueAbsolute(old, value, mine) == value

\* the value the setter hands to a child: child[prop] += value - this[prop]
ChildValue(old, value, mine) == JsAdd(old, JsSub(value, mine))

RECURSIVE set_prop(_, _, _, _, _, _), fan_out(_, _, _, _, _, _, _)
\* set p(value) on entity e; f is the stored property of every entity,
\* kids the children sequences.  [ok, f]: ok is FALSE when the recursion
\* does not end.
set_prop(p, kids, f, e, value, fuel) ==
  IF fuel = 0 THEN [ok |-> FALSE, f |-> f]
  ELSE LET r == IF FansOut(p) THEN fan_out(p, kids, f, e, value, 1, fuel)
                ELSE [ok |-> TRUE, f |-> f]
       IN  IF r.ok
           THEN [ok |-> TRUE, f |-> [r.f EXCEPT ![e] = StoreOf(p, e, value)]]
           ELSE r

\* this.children.map(child => { child[p] += value - this[p] }), from child i on
fan_out(p, kids, f, e, value, i, fuel) ==
  IF i > Len(kids[e]) THEN [ok |-> TRUE, f |-> f]
  ELSE LET c == kids[e][i]
           r == set_prop(p, kids, f, c, ChildValue(f[c], value, f[e]), fuel - 1)
       IN  IF r.ok THEN fan_out(p, kids, r.f, e, value, i + 1, fuel) ELSE r

\* ------------------------------------------------------------- setScale
\* the argument handed to a child: child.scale.x + x - this.scale.x
ChildScale(theirs, value, mine) == JsSub(JsAdd(theirs, value), mine)

RECURSIVE setScale(_, _, _, _, _, _), setScale_kids(_, _, _, _, _, _, _)
setScale(kids, s, e, vx, vy, fuel) ==
  IF fuel = 0 THEN [ok |-> FALSE, f |-> s]
  ELSE LET r == IF FansOut("setScale")
                THEN setScale_kids(kids, s, e, vx, vy, 1, fuel)
                ELSE [ok |-> TRUE, f |-> s]
       IN  IF r.ok
           THEN [ok |-> TRUE, f |-> [r.f EXCEPT ![e] = [x |-> vx, y |-> vy]]]
           ELSE r

setScale_kids(kids, s, e, vx, vy, i, fuel) ==
  IF i > Len(kids[e]) THEN [ok |-> TRUE, f |-> s]
  ELSE LET c == kids[e][i]
           r == setScale(kids, s, c,
                         ChildScale(s[c].x, vx, s[e].x),
                         ChildScale(s[c].y, vy, s[e].y), fuel - 1)
       IN  IF r.ok THEN setScale_kids(kids, r.f, e, vx, vy, i + 1, fuel) ELSE r

\* setScale(x, y = x): the default applies when y is undefined
DefaultY(vx, vy) == IF vy = Undef THEN vx ELSE vy

\* -------------------------------------------------------------- opacity
\* the test of the parent's final opacity in the opacity setter
ParentFopUsable(v) == IF build = "mods" THEN v # Undef ELSE JsTruthy(v)

RECURSIVE set_opacity(_, _, _, _, _, _), set_opacity_kids(_, _, _, _, _, _)
\* st = [op, fop]
set_opacity(kids, par, st, e, value, fuel) ==
  IF fuel = 0 THEN [ok |-> FALSE, st |-> st]
  ELSE LET f1 == IF par[e] # None /\ ParentFopUsable(st.fop[par[e]])
                 THEN JsMul(value, st.fop[par[e]])
                 ELSE value
           s1 == [st EXCEPT !.fop[e] = f1]
           r  == set_opacity_kids(kids, par, s1, e, 1, fuel)
       IN  IF r.ok
           THEN [ok |-> TRUE, st |-> [r.st EXCEPT !.op[e] = value]]
           ELSE r

\* children.map(child => { child.opacity = child.opacity })
set_opacity_kids(kids, par, st, e, i, fuel) ==
  IF i > Len(kids[e]) THEN [ok |-> TRUE, st |-> st]
  ELSE LET c == kids[e][i]
           r == set_opacity(kids, par, st, c, st.op[c], fuel - 1)
       IN  IF r.ok THEN set_opacity_kids(kids, par, r.st, e, i + 1, fuel) ELSE r

\* ------------------------------------------------------------ construction
\* GameObject.init runs a fragment's initializer i() before it installs the
\* fragment's accessors.  A value the initializer assigns to a name whose
\* accessor is installed afterwards is lost with the data property that held
\* it (rotation and opacity of the "mods" fragments); a name that group.js
\* alone defines (x, y) has no stored value until it is written.
InitX == IF build = "mods" THEN 0 ELSE Undef
InitCamera == 0
InitRotation == IF build = "mods" THEN Undef ELSE 0
InitOpacity == IF build = "mods" THEN Undef ELSE 1
InitScale == [x |-> 1, y |-> 1]
InitSize == 0
InitAnchor == [x |-> 0, y |-> 0]
InitTtl == 0

\* no Pool was constructed
NoPool == [objects |-> <<>>, size |-> 0, maxSize |-> 0, ret |-> Undef]

\* the state after every entity was constructed, entity e with the position
\* Vector of clamp configuration pc[e]
Constructed(pc) ==
  /\ build \in Builds
  /\ children = [e \in Ent |-> <<>>]
  /\ parent = [e \in Ent |-> None]
  /\ x = [e \in Ent |-> InitX]
  /\ y = [e \in Ent |-> InitX]
  /\ pclamp = pc
  /\ sx = [e \in Ent |-> InitCamera]
  /\ sy = [e \in Ent |-> InitCamera]
  /\ rot = [e \in Ent |-> InitRotation]
  /\ scale = [e \in Ent |-> InitScale]
  /\ opacity = [e \in Ent |-> InitOpacity]
  /\ fop = [e \in Ent |-> InitOpacity]
  /\ width = [e \in Ent |-> InitSize]
  /\ height = [e \in Ent |-> InitSize]
  /\ anchor = [e \in Ent |-> InitAnchor]
  /\ ttl = [e \in Ent |-> InitTtl]
  /\ position = [e \in Ent |-> Vector(Undef, Undef, NoClamp)]
  /\ velocity = [e \in Ent |-> Vector(Undef, Undef, NoClamp)]
  /\ acceleration = [e \in Ent |-> Vector(Undef, Undef, NoClamp)]
  /\ calls = <<>>
  /\ alive = FALSE
  /\ vec = [i \in VecId |-> Vector(Undef, Undef, NoClamp)]
  /\ out = NoVector
  /\ again = FALSE
  /\ last = Call("init", None, None, 0, 0, FALSE)
  /\ err = "none"
  /\ steps = 0

\* entities constructed with no properties
Init == Constructed([e \in Ent |-> NoClamp]) /\ pool = NoPool

\* one entity may be constructed with a position property, a Vector at the
\* origin on which clamp() was called ("mods": x and y are position.x and
\* position.y; with group.js they are _x and _y, whatever position is)
InitClamped ==
  \E who \in Ent \cup {None}, cfg \in ClampBounds :
    Constructed([e \in Ent |->
                  IF e = who /\ build = "mods"
                  THEN [c |-> TRUE, a |-> cfg.a, b |-> cfg.b, d |-> cfg.d, e |-> cfg.e]
                  ELSE NoClamp])
    /\ pool = NoPool

\* a call can be made: no error is pending and the run is within its bound
CanCall == err = "none" /\ steps < MaxSteps

\* a call that ends with the uncaught error e, or returns when e = "none"
Returns(call, e) ==
  /\ last' = call
  /\ again' = (call = last)
  /\ err' = e
  /\ steps' = steps + 1

Step(call, ok) == Returns(call, IF ok THEN "none" ELSE "RangeError")

\* ---------------------------------------------------------------- writes
Field(p) ==
  CASE p = "x" -> x [] p = "y" -> y [] p = "sx" -> sx [] p = "sy" -> sy
    [] p = "rotation" -> rot

\* entity e: e[p] = v.  When the recursion does not end the call raises and
\* what the unwound recursion has stored is left unmodelled: the run stops.
Write(p, e, v) ==
  LET r == set_prop(p, children, Field(p), e, v, Fuel)
      f == IF r.ok THEN r.f ELSE Field(p)
  IN  /\ CanCall
      /\ x' = IF p = "x" THEN f ELSE x
      /\ y' = IF p = "y" THEN f ELSE y
      /\ sx' = IF p = "sx" THEN f ELSE sx
      /\ sy' = IF p = "sy" THEN f ELSE sy
      /\ rot' = IF p = "rotation" THEN f ELSE rot
      /\ Step(Call(p, e, None, v, 0, FALSE), r.ok)
      /\ UNCHANGED <<build, children, parent, pclamp, scale, opacity, fop, rest>>

SetX == \E e \in Ent, v \in WriteVals : Write("x", e, v)
SetY == \E e \in Ent, v \in WriteVals : Write("y", e, v)
SetSx == \E e \in Ent, v \in WriteVals : Write("sx", e, v)
SetSy == \E e \in Ent, v \in WriteVals : Write("sy", e, v)
SetRotation == \E e \in Ent, v \in WriteVals : Write("rotation", e, v)

\* position.clamp(xMin, yMin, xMax, yMax): "mods" only, where x and y are
\* kept in the position vector
ClampPosition ==
  \E e \in Ent, cfg \in ClampBounds :
    /\ CanCall
    /\ build = "mods"
    /\ pclamp' = [pclamp EXCEPT ![e] = [c |-> TRUE, a |-> cfg.a, b |-> cfg.b,
                                        d |-> cfg.d, e |-> cfg.e]]
    /\ Step(Call("clamp", e, None, 0, 0, FALSE), TRUE)
    /\ UNCHANGED <<build, children, parent, x, y, sx, sy, rot, scale, opacity, fop,
                   rest>>

\* setScale(vx, vy) on entity e; vy = Undef is the call with one argument
SetScale ==
  \E e \in Ent, vx \in WriteVals, vy \in WriteVals \cup {Undef} :
    LET r == setScale(children, scale, e, vx, DefaultY(vx, vy), Fuel)
    IN  /\ CanCall
        /\ scale' = IF r.ok THEN r.f ELSE scale
        /\ Step(Call("setScale", e, None, vx, vy, FALSE), r.ok)
        /\ UNCHANGED <<build, children, parent, x, y, pclamp, sx, sy, rot,
                       opacity, fop, rest>>

SetOpacity ==
  \E e \in Ent, v \in WriteVals :
    LET r == set_opacity(children, parent, [op |-> opacity, fop |-> fop], e, v, Fuel)
    IN  /\ CanCall
        /\ opacity' = IF r.ok THEN r.st.op ELSE opacity
        /\ fop' = IF r.ok THEN r.st.fop ELSE fop
        /\ Step(Call("opacity", e, None, v, 0, FALSE), r.ok)
        /\ UNCHANGED <<build, children, parent, x, y, pclamp, sx, sy, rot, scale,
                       rest>>

\* ------------------------------------------------------------- grouping
\* an addChild that ignores absolute
AttachAlwaysRelative(absolute, mine, theirs) == JsAdd(mine, theirs)

\* child.x = absolute ? child.x : this.x + child.x
Attach(absolute, mine, theirs) == IF absolute THEN theirs ELSE JsAdd(mine, theirs)

\* addChild(child, { absolute }) on entity p
addChild(p, c, absolute) ==
  LET kids == [children EXCEPT ![p] = Append(@, c)]
      rx  == set_prop("x", kids, x, c,
                      Attach(absolute, x[p], x[c]), Fuel)
      ry  == set_prop("y", kids, y, c,
                      Attach(absolute, y[p], y[c]), Fuel)
      rr  == set_prop("rotation", kids, rot, c, JsAdd(rot[p], rot[c]), Fuel)
      rs  == setScale(kids, scale, c, scale[p].x, scale[p].y, Fuel)
      rsx == set_prop("sx", kids, sx, c,
                      Attach(absolute, sx[p], sx[c]), Fuel)
      rsy == set_prop("sy", kids, sy, c,
                      Attach(absolute, sy[p], sy[c]), Fuel)
      ok  == rx.ok /\ ry.ok /\ rr.ok /\ rs.ok /\ rsx.ok /\ rsy.ok
  IN  /\ children' = kids
      /\ parent' = [parent EXCEPT ![c] = p]
      /\ x' = IF ok THEN rx.f ELSE x
      /\ y' = IF ok THEN ry.f ELSE y
      /\ rot' = IF ok THEN rr.f ELSE rot
      /\ scale' = IF ok THEN rs.f ELSE scale
      /\ sx' = IF ok THEN rsx.f ELSE sx
      /\ sy' = IF ok THEN rsy.f ELSE sy
      /\ fop' = IF ok THEN [fop EXCEPT ![c] = JsMul(opacity[p], opacity[c])] ELSE fop
      /\ Step(Call("addChild", p, c, 0, 0, absolute), ok)
      /\ UNCHANGED <<build, pclamp, opacity, rest>>

AddChild ==
  \E p \in Ent, c \in Ent, absolute \in BOOLEAN :
    /\ CanCall
    /\ Len(children[p]) < MaxKids
    /\ addChild(p, c, absolute)

\* the name under which the group fragment defines the method:
\* addChild(child, ...) in the group-aware set, adChild(child, ...) in group.js
GroupMethod == IF build = "mods" THEN "addChild" ELSE "adChild"

\* p.addChild(c, { absolute }) written with the name addChild: a TypeError
\* (p.addChild is not a function) when the entity has no method of that name
CallAddChild ==
  \E p \in Ent, c \in Ent, absolute \in BOOLEAN :
    /\ CanCall
    /\ Len(children[p]) < MaxKids
    /\ IF GroupMethod = "addChild"
       THEN addChild(p, c, absolute)
       ELSE /\ Returns(Call("addChild", p, c, 0, 0, absolute), "TypeError")
            /\ UNCHANGED <<props, calls, alive, pool, vectors>>

IndexOf(s, c) ==
  IF \E i \in 1..Len(s) : s[i] = c
  THEN CHOOSE i \in 1..Len(s) : s[i] = c /\ \A j \in 1..(i - 1) : s[j] # c
  ELSE 0

Splice(s, i) == SubSeq(s, 1, i - 1) \o SubSeq(s, i + 1, Len(s))

removeChild(p, c) ==
  LET index == IndexOf(children[p], c)
  IN  /\ children' = IF index # 0
                     THEN [children EXCEPT ![p] = Splice(@, index)]
                     ELSE children
      /\ parent' = IF index # 0 THEN [parent EXCEPT ![c] = None] ELSE parent
      /\ Step(Call("removeChild", p, c, 0, 0, FALSE), TRUE)
      /\ UNCHANGED <<build, x, y, pclamp, sx, sy, rot, scale, opacity, fop, rest>>

RemoveChild == \E p \in Ent, c \in Ent : CanCall /\ removeChild(p, c)

\* ------------------------------------------------------ tree structure
RECURSIVE Paths(_, _, _, _), PathsFrom(_, _, _, _, _)
\* number of paths of children links that lead from entity e down to t
Paths(kids, e, t, fuel) == IF fuel = 0 THEN 1 ELSE PathsFrom(kids, e, t, 1, fuel)
PathsFrom(kids, e, t, i, fuel) ==
  IF i > Len(kids[e]) THEN 0
  ELSE (IF kids[e][i] = t THEN 1 ELSE 0)
       + Paths(kids, kids[e][i], t, fuel - 1)
       + PathsFrom(kids, e, t, i + 1, fuel)

\* the entities below e form a tree: each is listed once, under one parent,
\* and e is not below itself
TreeBelow(kids, e) ==
  /\ Paths(kids, e, e, Fuel) = 0
  /\ \A t \in Ent : Paths(kids, e, t, Fuel) <= 1

Kids(kids, e) == {kids[e][i] : i \in 1..Len(kids[e])}

\* ------------------------------------------------------- specifications
(* ---------------------------------------------------------------- *)
(* camera, scale and opacity getters                                 *)
(* ---------------------------------------------------------------- *)

\* a view coordinate that drifts with the number of calls already logged
viewDrift(e, f, g) == JsAdd(JsSub(f[e], g[e]), Len(calls))

\* get viewX() { return this.x - this.sx } (and viewY likewise)
view(e, f, g) == JsSub(f[e], g[e])

viewX(e) == view(e, x, sx)
viewY(e) == view(e, y, sy)

\* get scaledWidth() { return this.width * this.scale.x }
scaledWidth(e) == JsMul(width[e], scale[e].x)
scaledHeight(e) == JsMul(height[e], scale[e].y)

\* get finalOpacity(): _fop in the group-aware version, this.opacity in the
\* plain one
finalOpacity(e) == IF FansOut("finalOpacity") THEN fop[e] ELSE opacity[e]

(* ---------------------------------------------------------------- *)
(* render()                                                          *)
(* ---------------------------------------------------------------- *)

\* one call on the drawing context: who made it, for which step of render()
Ctx(fn, stage, who, a, b) == [fn |-> fn, stage |-> stage, who |-> who, a |-> a, b |-> b]

JsNeg(v) == IF JsNum(v) THEN 0 - v ELSE NaN

\* let anchorX = -this.width * x
anchorX(e) == JsMul(JsNeg(width[e]), anchor[e].x)
anchorY(e) == JsMul(JsNeg(height[e]), anchor[e].y)

\* the transform calls of render() with rotate issued before translate
TransformsRotateFirst(e) ==
  (IF JsTruthy(rot[e])
   THEN <<Ctx("rotate", "rotation", e, rot[e], 0)>> ELSE <<>>)
  \o
  (IF JsTruthy(viewX(e)) \/ JsTruthy(viewY(e))
   THEN <<Ctx("translate", "position", e, viewX(e), viewY(e))>> ELSE <<>>)
  \o
  (IF scale[e].x # 1 \/ scale[e].y # 1
   THEN <<Ctx("scale", "scale", e, scale[e].x, scale[e].y)>> ELSE <<>>)

\* the transform calls of render() issued whatever the values are
TransformsUngated(e) ==
  <<Ctx("translate", "position", e, viewX(e), viewY(e)),
    Ctx("rotate", "rotation", e, rot[e], 0),
    Ctx("scale", "scale", e, scale[e].x, scale[e].y)>>

\* if (viewX || viewY) translate; if (this.rotation) rotate;
\* if (x != 1 || y != 1) scale
Transforms(e) ==
  (IF JsTruthy(viewX(e)) \/ JsTruthy(viewY(e))
   THEN <<Ctx("translate", "position", e, viewX(e), viewY(e))>> ELSE <<>>)
  \o
  (IF JsTruthy(rot[e])
   THEN <<Ctx("rotate", "rotation", e, rot[e], 0)>> ELSE <<>>)
  \o
  (IF scale[e].x # 1 \/ scale[e].y # 1
   THEN <<Ctx("scale", "scale", e, scale[e].x, scale[e].y)>> ELSE <<>>)

\* the calls render() makes for the entity itself, save() to restore()
OwnCalls(e) ==
  <<Ctx("save", "save", e, 0, 0)>>
  \o Transforms(e)
  \o
  (IF JsTruthy(anchorX(e)) \/ JsTruthy(anchorY(e))
   THEN <<Ctx("translate", "anchor", e, anchorX(e), anchorY(e))>> ELSE <<>>)
  \o <<Ctx("globalAlpha", "alpha", e, finalOpacity(e), 0)>>
  \o <<Ctx("_rf", "draw", e, 0, 0)>>
  \o <<Ctx("restore", "restore", e, 0, 0)>>

RECURSIVE render(_, _), render_kids(_, _, _)

\* render(): own calls, then child.render() for each child in children
\* order; ok = FALSE when the recursion never returns (a child that has
\* itself below it)
render(e, fuel) ==
  IF fuel = 0 THEN [ok |-> FALSE, log |-> <<>>]
  ELSE LET r == render_kids(e, 1, fuel)
       IN  [ok |-> r.ok, log |-> OwnCalls(e) \o r.log]

render_kids(e, i, fuel) ==
  IF i > Len(children[e]) THEN [ok |-> TRUE, log |-> <<>>]
  ELSE LET r == render(children[e][i], fuel - 1)
       IN  IF ~r.ok THEN r
           ELSE LET q == render_kids(e, i + 1, fuel)
                IN  [ok |-> q.ok, log |-> r.log \o q.log]

Render ==
  \E e \in Ent :
    /\ CanCall
    /\ LET r == render(e, Fuel)
       IN  /\ calls' = r.log
           /\ Step(Call("render", e, None, 0, 0, FALSE), r.ok)
    /\ UNCHANGED <<props, alive, pool, vectors>>

(* ---------------------------------------------------------------- *)
(* construction with properties: Object.assign(this, props)          *)
(* ---------------------------------------------------------------- *)

Positions == {<<0, 0>>, <<2, 0>>, <<0, 2>>}
Cameras == {0, 2}
Rotations == {0, 5}
Scales == {[x |-> 1, y |-> 1], [x |-> 2, y |-> 1]}
Sizes == {<<2, 3>>}
Anchors == {[x |-> 0, y |-> 0], [x |-> 0, y |-> 1]}

\* entity 1 is constructed with x, y, sx, rotation, scale, width, height and
\* anchor properties, the others with none; no entity has children yet, so
\* every setter stores the value it is given
InitWithProperties ==
  /\ build \in Builds
  /\ children = [e \in Ent |-> <<>>]
  /\ parent = [e \in Ent |-> None]
  /\ pclamp = [e \in Ent |-> NoClamp]
  /\ \E pos \in Positions :
       /\ x = [e \in Ent |-> IF e = 1 THEN pos[1] ELSE InitX]
       /\ y = [e \in Ent |-> IF e = 1 THEN pos[2] ELSE InitX]
  /\ \E v \in Cameras : sx = [e \in Ent |-> IF e = 1 THEN v ELSE InitCamera]
  /\ sy = [e \in Ent |-> InitCamera]
  /\ \E v \in Rotations : rot = [e \in Ent |-> IF e = 1 THEN v ELSE InitRotation]
  /\ \E v \in Scales : scale = [e \in Ent |-> IF e = 1 THEN v ELSE InitScale]
  /\ opacity = [e \in Ent |-> InitOpacity]
  /\ fop = [e \in Ent |-> InitOpacity]
  /\ \E sz \in Sizes :
       /\ width = [e \in Ent |-> IF e = 1 THEN sz[1] ELSE InitSize]
       /\ height = [e \in Ent |-> IF e = 1 THEN sz[2] ELSE InitSize]
  /\ \E v \in Anchors : anchor = [e \in Ent |-> IF e = 1 THEN v ELSE InitAnchor]
  /\ ttl = [e \in Ent |-> InitTtl]
  /\ position = [e \in Ent |-> Vector(Undef, Undef, NoClamp)]
  /\ velocity = [e \in Ent |-> Vector(Undef, Undef, NoClamp)]
  /\ acceleration = [e \in Ent |-> Vector(Undef, Undef, NoClamp)]
  /\ calls = <<>>
  /\ alive = FALSE
  /\ pool = NoPool
  /\ vec = [i \in VecId |-> Vector(Undef, Undef, NoClamp)]
  /\ out = NoVector
  /\ again = FALSE
  /\ last = Call("init", None, None, 0, 0, FALSE)
  /\ err = "none"
  /\ steps = 0

SpecRender == InitWithProperties /\ [][AddChild \/ Render]_vars

(* ---------------------------------------------------------------- *)
(* plain data properties, ttl and isAlive()                          *)
(* ---------------------------------------------------------------- *)

Infinity == 1000000
TtlVals == {0 - 1, 0, 1, 3, Infinity, NaN, Undef}

\* JavaScript a > b on numbers: false when either side is NaN or undefined
JsGt(a, b) == JsNum(a) /\ JsNum(b) /\ a > b

SetWidth ==
  \E e \in Ent, v \in WriteVals :
    /\ CanCall
    /\ width' = [width EXCEPT ![e] = v]
    /\ Step(Call("width", e, None, v, 0, FALSE), TRUE)
    /\ UNCHANGED <<build, children, parent, x, y, pclamp, sx, sy, rot, scale, opacity,
                   fop, height, anchor, ttl, motion, calls, alive, pool, vectors>>

SetTtl ==
  \E e \in Ent, v \in TtlVals :
    /\ CanCall
    /\ ttl' = [ttl EXCEPT ![e] = v]
    /\ Step(Call("ttl", e, None, v, 0, FALSE), TRUE)
    /\ UNCHANGED <<build, children, parent, x, y, pclamp, sx, sy, rot, scale, opacity,
                   fop, width, height, anchor, motion, calls, alive, pool, vectors>>

\* isAlive() with ttl = 0 counted as alive
isAliveAtZero(e) == JsNum(ttl[e]) /\ ttl[e] >= 0

\* isAlive() { return this.ttl > 0 }
isAlive(e) == JsGt(ttl[e], 0)

IsAlive ==
  \E e \in Ent :
    /\ CanCall
    /\ alive' = isAlive(e)
    /\ Step(Call("isAlive", e, None, 0, 0, FALSE), TRUE)
    /\ UNCHANGED <<props, calls, pool, vectors>>

SpecTtl == Init /\ [][SetTtl \/ IsAlive]_vars

(* ---------------------------------------------------------------- *)
(* writes to the derived properties                                  *)
(* ---------------------------------------------------------------- *)

Derived == {"viewX", "viewY", "scaledWidth", "scaledHeight", "finalOpacity"}
DerivedVals == {5}

\* what a read of a derived property returns
Read(p, e) ==
  CASE p = "viewX" -> viewX(e)
    [] p = "viewY" -> viewY(e)
    [] p = "scaledWidth" -> scaledWidth(e)
    [] p = "scaledHeight" -> scaledHeight(e)
    [] p = "finalOpacity" -> finalOpacity(e)

\* the fragment defines a setter next to the getter: set viewX(value) {},
\* set scaledWidth(value) {}, set finalOpacity(value) {}; the opacity
\* fragment of the "mods" build defines get finalOpacity() only
HasSetter(p) == p = "finalOpacity" => build = "group"

\* e[p] = v. An accessor without a setter rejects the assignment: strict
\* code (every ES module, and Object.assign) gets a TypeError, sloppy code
\* carries on
WriteDerived ==
  \E e \in Ent, p \in Derived, v \in DerivedVals, strict \in BOOLEAN :
    /\ CanCall
    /\ Returns(Call(p, e, None, v, 0, strict),
               IF HasSetter(p) \/ ~strict THEN "none" ELSE "TypeError")
    /\ UNCHANGED <<props, calls, alive, pool, vectors>>

SpecDerived ==
  Init /\ [][SetSx \/ SetWidth \/ SetOpacity \/ SetScale \/ WriteDerived]_vars

(* ---------------------------------------------------------------- *)
(* calls on Vector objects                                           *)
(* ---------------------------------------------------------------- *)

VecVals == {0 - 3, 0, 2, 5, NaN}
Factors == {0, 2, 5}

\* vec[i] = Vector(vx, vy)
NewVector ==
  \E i \in VecId, vx \in VecVals, vy \in VecVals :
    /\ CanCall
    /\ vec' = [vec EXCEPT ![i] = Vector(vx, vy, NoClamp)]
    /\ Step(Call("Vector", i, None, vx, vy, FALSE), TRUE)
    /\ UNCHANGED <<props, calls, alive, pool, out>>

\* vec[i].clamp(xMin, yMin, xMax, yMax): the bounds are recorded, x and y
\* are not touched
VectorClamp ==
  \E i \in VecId, cfg \in ClampBounds :
    /\ CanCall
    /\ vec' = [vec EXCEPT ![i].cl = [c |-> TRUE, a |-> cfg.a, b |-> cfg.b,
                                      d |-> cfg.d, e |-> cfg.e]]
    /\ Step(Call("Vector.clamp", i, None, 0, 0, FALSE), TRUE)
    /\ UNCHANGED <<props, calls, alive, pool, out>>

\* vec[i].x = v
VectorSetX ==
  \E i \in VecId, v \in VecVals :
    /\ CanCall
    /\ vec' = [vec EXCEPT ![i].x = Vector_set_x(vec[i].cl, v)]
    /\ Step(Call("Vector.x", i, None, v, 0, FALSE), TRUE)
    /\ UNCHANGED <<props, calls, alive, pool, out>>

\* vec[i].y = v
VectorSetY ==
  \E i \in VecId, v \in VecVals :
    /\ CanCall
    /\ vec' = [vec EXCEPT ![i].y = Vector_set_y(vec[i].cl, v)]
    /\ Step(Call("Vector.y", i, None, v, 0, FALSE), TRUE)
    /\ UNCHANGED <<props, calls, alive, pool, out>>

\* vec[i].add(vec[j], dt); dt = Undef is the call with one argument
VectorAdd ==
  \E i \in VecId, j \in VecId, dt \in {Undef, 1, 2} :
    /\ CanCall
    /\ out' = Vector_add(vec[i], vec[j], dt)
    /\ Step(Call("Vector.add", i, j, dt, 0, FALSE), TRUE)
    /\ UNCHANGED <<props, calls, alive, pool, vec>>

VectorSubtract ==
  \E i \in VecId, j \in VecId :
    /\ CanCall
    /\ out' = Vector_subtract(vec[i], vec[j])
    /\ Step(Call("Vector.subtract", i, j, 0, 0, FALSE), TRUE)
    /\ UNCHANGED <<props, calls, alive, pool, vec>>

VectorScale ==
  \E i \in VecId, k \in Factors :
    /\ CanCall
    /\ out' = Vector_scale(vec[i], k)
    /\ Step(Call("Vector.scale", i, None, k, 0, FALSE), TRUE)
    /\ UNCHANGED <<props, calls, alive, pool, vec>>

\* vec[i].normalize(), for a vector along an axis (its length is then a
\* whole number)
VectorNormalize ==
  \E i \in VecId :
    /\ CanCall
    /\ vec[i].x = 0 \/ vec[i].y = 0
    /\ out' = Vector_normalize(vec[i])
    /\ Step(Call("Vector.normalize", i, None, 0, 0, FALSE), TRUE)
    /\ UNCHANGED <<props, calls, alive, pool, vec>>

SpecVector ==
  Init /\ [][NewVector \/ VectorClamp \/ VectorSetX \/ VectorSetY \/ VectorAdd
               \/ VectorSubtract \/ VectorScale \/ VectorNormalize]_vars

(* ---------------------------------------------------------------- *)
(* velocity, acceleration and advance()                              *)
(* ---------------------------------------------------------------- *)

MotionVals == {2, 5}
Dts == {Undef, 1, 2}

\* the Vector in this.position: the rect accessors keep x and y in it, the
\* accessors of group.js keep them in _x and _y beside it
Position(e) ==
  IF build = "mods" THEN [x |-> x[e], y |-> y[e], cl |-> pclamp[e]]
  ELSE position[e]

\* a ttl-- that takes dt frames off
DecrementByDt(v) ==
  IF v = Infinity THEN Infinity ELSE IF JsNum(v) THEN v - 2 ELSE NaN

\* this.ttl--
Decrement(v) ==
  IF v = Infinity THEN Infinity ELSE IF JsNum(v) THEN v - 1 ELSE NaN

\* set dx(value) { this.velocity.x = value }
SetDx ==
  \E e \in Ent, v \in MotionVals :
    /\ CanCall
    /\ velocity' = [velocity EXCEPT ![e].x = Vector_set_x(velocity[e].cl, v)]
    /\ Step(Call("dx", e, None, v, 0, FALSE), TRUE)
    /\ UNCHANGED <<build, children, parent, x, y, pclamp, sx, sy, rot, scale,
                   opacity, fop, width, height, anchor, ttl, position,
                   acceleration, calls, alive, pool, vectors>>

\* set ddx(value) { this.acceleration.x = value }
SetDdx ==
  \E e \in Ent, v \in MotionVals :
    /\ CanCall
    /\ acceleration' = [acceleration EXCEPT
                          ![e].x = Vector_set_x(acceleration[e].cl, v)]
    /\ Step(Call("ddx", e, None, v, 0, FALSE), TRUE)
    /\ UNCHANGED <<build, children, parent, x, y, pclamp, sx, sy, rot, scale,
                   opacity, fop, width, height, anchor, ttl, position,
                   velocity, calls, alive, pool, vectors>>

\* advance(dt) on entity e, called under the name op:
\*   this.velocity = this.velocity.add(this.acceleration, dt);
\*   this.position = this.position.add(this.velocity, dt);
\*   this.ttl--
\* The new position replaces the old one: no setter of x or y runs.
advance(op, e, dt) ==
  LET v1 == Vector_add(velocity[e], acceleration[e], dt)
      p1 == Vector_add(Position(e), v1, dt)
  IN  /\ velocity' = [velocity EXCEPT ![e] = v1]
      /\ IF build = "mods"
         THEN /\ x' = [x EXCEPT ![e] = p1.x]
              /\ y' = [y EXCEPT ![e] = p1.y]
              /\ pclamp' = [pclamp EXCEPT ![e] = p1.cl]
              /\ UNCHANGED position
         ELSE /\ position' = [position EXCEPT ![e] = p1]
              /\ UNCHANGED <<x, y, pclamp>>
      /\ ttl' = [ttl EXCEPT ![e] = Decrement(@)]
      /\ Step(Call(op, e, None, dt, 0, FALSE), TRUE)
      /\ UNCHANGED <<build, children, parent, sx, sy, rot, scale, opacity, fop,
                     width, height, anchor, acceleration, calls, alive, pool,
                     vectors>>

Advance == \E e \in Ent, dt \in Dts : CanCall /\ advance("advance", e, dt)

\* update(dt) { this.advance(dt) }
Update == \E e \in Ent, dt \in Dts : CanCall /\ advance("update", e, dt)

(* ---------------------------------------------------------------- *)
(* construction with a children and a scale property                  *)
(* ---------------------------------------------------------------- *)

\* the children properties an entity e is constructed with: up to MaxKids
\* other entities, none of them twice
ChildrenProps(e) ==
  LET others == Ent \ {e}
  IN  {<<>>} \cup {<<c>> : c \in others}
             \cup {k \in others \X others : k[1] # k[2]}

\* the scale properties: { x: 1, y: 1 }, { x: 2, y: 1 } and { x: 2 }
ScaleProps == {[x |-> 1, y |-> 1], [x |-> 2, y |-> 1], [x |-> 2, y |-> Undef]}

\* e is as init left it and no entity refers to it
Untouched(e) ==
  /\ children[e] = <<>> /\ parent[e] = None
  /\ \A p \in Ent : \A i \in 1..Len(children[p]) : children[p][i] # e
  /\ x[e] = InitX /\ y[e] = InitX /\ pclamp[e] = NoClamp
  /\ sx[e] = InitCamera /\ sy[e] = InitCamera
  /\ rot[e] = InitRotation /\ scale[e] = InitScale
  /\ opacity[e] = InitOpacity /\ fop[e] = InitOpacity
  /\ width[e] = InitSize /\ height[e] = InitSize
  /\ anchor[e] = InitAnchor /\ ttl[e] = InitTtl
  /\ position[e] = Vector(Undef, Undef, NoClamp)
  /\ velocity[e] = Vector(Undef, Undef, NoClamp)
  /\ acceleration[e] = Vector(Undef, Undef, NoClamp)

\* e = new GameObject({ children: kids, scale: sc }), the children being
\* entities constructed before: after the fragments are installed,
\*   let { render, ...props } = properties; Object.assign(this, props)
\* assigns children and scale to the data properties the initializers made
NewGameObject ==
  \E e \in Ent :
    \E kids \in ChildrenProps(e), sc \in ScaleProps :
      /\ CanCall
      /\ Untouched(e)
      /\ children' = [children EXCEPT ![e] = kids]
      /\ scale' = [scale EXCEPT ![e] = sc]
      /\ Step(Call("GameObject", e, None, sc.x, sc.y, FALSE), TRUE)
      /\ UNCHANGED <<build, parent, x, y, pclamp, sx, sy, rot, opacity, fop,
                     rest>>

SpecConstruct == Init /\ [][NewGameObject \/ SetScale]_vars

\* ------------------------------------------------------------------ Pool
MaxPoolSize == 3
MaxSizes == 0..MaxPoolSize
PoolTtls == {Undef, 1, 2}

\* new Pool({create, maxSize}): this.objects = [create()]; this.size = 0;
\* this.maxSize = maxSize.  create() returns a newly constructed entity, of
\* which the pool looks at ttl only.
Pool(maxSize) ==
  [objects |-> <<InitTtl>>, size |-> 0, maxSize |-> maxSize, ret |-> Undef]

\* a Pool was constructed
HasPool == pool # NoPool

\* the state after the entities and a Pool were constructed
InitPool ==
  /\ Constructed([e \in Ent |-> NoClamp])
  /\ \E maxSize \in MaxSizes : pool = Pool(maxSize)

\* for (let i = 0; i < this.size && this.objects.length < this.maxSize; i++)
\*   this.objects.push(this._c())
RECURSIVE Pool_grow(_, _, _, _)
Pool_grow(objects, i, size, maxSize) ==
  IF i < size /\ Len(objects) < maxSize
  THEN Pool_grow(Append(objects, InitTtl), i + 1, size, maxSize)
  ELSE objects

\* get() returns at once: if (this.size === this.objects.length) {
\*   if (this.size === this.maxSize) return
Pool_get_full(pl) == pl.size = Len(pl.objects) /\ pl.size = pl.maxSize

\* the objects get() goes on with: grown where size === objects.length
Pool_get_objects(pl) ==
  IF pl.size = Len(pl.objects)
  THEN Pool_grow(pl.objects, 0, pl.size, pl.maxSize)
  ELSE pl.objects

\* obj.init(properties): the initializer of ttl runs, then the property
Pool_init(t) == IF t = Undef THEN InitTtl ELSE t

\* get(properties).  let obj = this.objects[this.size]; this.size++;
\* obj.init(properties); return obj.  Where objects has no element at index
\* size, obj is undefined and obj.init raises a TypeError after size++.
PoolGet ==
  \E t \in PoolTtls :
    LET call == Call("Pool.get", None, None, t, 0, FALSE)
        objs == Pool_get_objects(pool)
    IN /\ CanCall
       /\ HasPool
       /\ IF Pool_get_full(pool)
          THEN /\ pool' = [pool EXCEPT !.ret = Undef]
               /\ Step(call, TRUE)
          ELSE IF pool.size < Len(objs)
          THEN /\ pool' = [pool EXCEPT
                             !.objects = [objs EXCEPT ![pool.size + 1] = Pool_init(t)],
                             !.size = pool.size + 1,
                             !.ret = pool.size + 1]
               /\ Step(call, TRUE)
          ELSE /\ pool' = [pool EXCEPT !.objects = objs, !.size = pool.size + 1,
                                       !.ret = Undef]
               /\ Returns(call, "TypeError")
       /\ UNCHANGED <<props, calls, alive, vectors>>

\* the ttl of a pooled object is above 0
Pool_isAlive(t) == JsGt(t, 0)

\* the objects after for (let i = this.size; i--; ) obj.update(dt): each of
\* the first size objects had ttl--
Pool_updated(pl) ==
  [i \in 1..Len(pl.objects) |->
     IF i <= pl.size THEN Decrement(pl.objects[i]) ELSE pl.objects[i]]

\* this.objects.sort((a, b) => b.isAlive() - a.isAlive()): the objects that
\* are alive first, each group in the order it had
Pool_sort(objects) ==
  SelectSeq(objects, LAMBDA t : Pool_isAlive(t))
    \o SelectSeq(objects, LAMBDA t : ~Pool_isAlive(t))

\* update(dt): size-- for each of the first size objects that is not alive
\* after its update, then the sort when there was one.  (size is above
\* objects.length only after the get() that raised, which ends the run.)
PoolUpdate ==
  \E dt \in Dts :
    LET objs == Pool_updated(pool)
        dead == {i \in 1..Min(pool.size, Len(objs)) : ~Pool_isAlive(objs[i])}
    IN /\ CanCall
       /\ HasPool
       /\ pool' = [pool EXCEPT
                     !.objects = IF dead # {} THEN Pool_sort(objs) ELSE objs,
                     !.size = pool.size - Cardinality(dead),
                     !.ret = Undef]
       /\ Step(Call("Pool.update", None, None, dt, 0, FALSE), TRUE)
       /\ UNCHANGED <<props, calls, alive, vectors>>

\* clear() { this.size = this.objects.length = 0; this.objects.push(this._c()) }
PoolClear ==
  /\ CanCall
  /\ HasPool
  /\ pool' = [pool EXCEPT !.objects = <<InitTtl>>, !.size = 0, !.ret = Undef]
  /\ Step(Call("Pool.clear", None, None, 0, 0, FALSE), TRUE)
  /\ UNCHANGED <<props, calls, alive, vectors>>

\* new Pool({create, maxSize})
NewPool ==
  \E maxSize \in MaxSizes :
    /\ CanCall
    /\ pool' = Pool(maxSize)
    /\ Step(Call("Pool", None, None, maxSize, 0, FALSE), TRUE)
    /\ UNCHANGED <<props, calls, alive, vectors>>

SpecPool == InitPool /\ [][PoolGet \/ PoolUpdate \/ PoolClear]_vars

Next ==
  \/ AddChild
  \/ CallAddChild
  \/ RemoveChild
  \/ SetX
  \/ SetY
  \/ SetSx
  \/ SetSy
  \/ SetRotation
  \/ ClampPosition
  \/ SetScale
  \/ SetOpacity
  \/ SetWidth
  \/ SetTtl
  \/ IsAlive
  \/ Render
  \/ WriteDerived
  \/ SetDx
  \/ SetDdx
  \/ Advance
  \/ Update
  \/ NewGameObject
  \/ NewPool
  \/ PoolGet
  \/ PoolUpdate
  \/ PoolClear
  \/ NewVector
  \/ VectorClamp
  \/ VectorSetX
  \/ VectorSetY
  \/ VectorAdd
  \/ VectorSubtract
  \/ VectorScale
  \/ VectorNormalize

Spec == Init /\ [][Next]_vars

\* the grouping calls on position, camera offset and rotation
SpecGroup ==
  Init /\ [][AddChild \/ RemoveChild \/ SetX \/ SetY \/ SetSx \/ SetSy
               \/ SetRotation \/ ClampPosition]_vars

\* the group methods, addChild called by its fragment name and as addChild
SpecMethods == Init /\ [][AddChild \/ CallAddChild \/ RemoveChild]_vars

\* fan-out through nested groups, with clamped position vectors
SpecNest ==
  InitClamped /\ [][AddChild \/ SetX \/ SetY \/ SetSx \/ SetRotation]_vars

\* addChild calls and opacity writes
SpecOpacityChain == Init /\ [][AddChild \/ SetOpacity]_vars

SpecScale == Init /\ [][AddChild \/ RemoveChild \/ SetScale]_vars
SpecOpacity == Init /\ [][AddChild \/ RemoveChild \/ SetOpacity]_vars

\* ================================================================ claims
\* what a position vector with clamp configuration cfg keeps of a written
\* value on the axis with bounds lo..hi
Kept(on, lo, hi, v) ==
  IF ~on THEN v
  ELSE IF ~JsNum(v) THEN NaN
  ELSE IF v < lo THEN lo
  ELSE IF v > hi THEN hi
  ELSE v
KeptX(e, v) == Kept(build = "mods" /\ pclamp[e].c, pclamp[e].a, pclamp[e].d, v)
KeptY(e, v) == Kept(build = "mods" /\ pclamp[e].c, pclamp[e].b, pclamp[e].e, v)

\* the step is a completed write of property p on an entity that has
\* children, which form a tree
WroteTree(p) ==
  /\ last'.op = p
  /\ err' = "none"
  /\ children[last'.e] # <<>>
  /\ TreeBelow(children, last'.e)

\* C1 as stated: P.x = v (resp. P.y = v) adds v - (P's previous x) to the x
\* of every child and then stores v on P.
C1_FanOutStoresValue ==
  [][ /\ WroteTree("x") =>
           /\ \A c \in Kids(children, last'.e) :
                x'[c] = JsAdd(x[c], JsSub(last'.v, x[last'.e]))
           /\ x'[last'.e] = last'.v
      /\ WroteTree("y") =>
           /\ \A c \in Kids(children, last'.e) :
                y'[c] = JsAdd(y[c], JsSub(last'.v, y[last'.e]))
           /\ y'[last'.e] = last'.v ]_vars

\* C1 amended: P.x = v (resp. y) writes child.x + (v - P's previous x) to the
\* x of every child and then v to the x of P, and each of these writes
\* stores its value clamped to the bounds of that entity's position vector
\* when clamp() was called on it (the value itself otherwise).
C1_FanOutStoresKept ==
  [][ /\ WroteTree("x") =>
           /\ \A c \in Kids(children, last'.e) :
                x'[c] = KeptX(c, JsAdd(x[c], JsSub(last'.v, x[last'.e])))
           /\ x'[last'.e] = KeptX(last'.e, last'.v)
      /\ WroteTree("y") =>
           /\ \A c \in Kids(children, last'.e) :
                y'[c] = KeptY(c, JsAdd(y[c], JsSub(last'.v, y[last'.e])))
           /\ y'[last'.e] = KeptY(last'.e, last'.v) ]_vars

\* a parent with clamp bounds was written 5: it keeps 4, its child moved by 5
C1_Witness ==
  /\ last.op = "x" /\ err = "none" /\ last.v = 5
  /\ pclamp[last.e].c /\ x[last.e] = 4
  /\ \E c \in Kids(children, last.e) : c # last.e /\ x[c] = 5 /\ ~pclamp[c].c

\* the fan-out law on a property held in f before the write and in g after it
C2_Law(f, g, e, v) ==
  /\ JsNum(f[e])
  /\ \A c \in Kids(children, e) : g[c] = f[c] + (v - f[e])
  /\ g[e] = v

\* C2 as stated: a write of v to sx, sy or rotation of a grouping entity adds
\* v - (the previously stored value) to the same property of every child and
\* then stores v; the first write after construction is no exception, the
\* previously stored value is then the number the initializer stored.
C2_FanOutFromFirstWrite ==
  [][ /\ (WroteTree("sx") /\ \A c \in Kids(children, last'.e) : JsNum(sx[c]))
           => C2_Law(sx, sx', last'.e, last'.v)
      /\ (WroteTree("sy") /\ \A c \in Kids(children, last'.e) : JsNum(sy[c]))
           => C2_Law(sy, sy', last'.e, last'.v)
      /\ (WroteTree("rotation") /\ \A c \in Kids(children, last'.e) : JsNum(rot[c]))
           => C2_Law(rot, rot', last'.e, last'.v) ]_vars

\* C3: setScale(x, y) on a grouping entity with scale (sx, sy) calls
\* setScale(child.scale.x + x - sx, child.scale.y + y - sy) on every child and
\* then stores {x, y}; y is x when it is omitted.
C3_SetScaleDelta ==
  [][ WroteTree("setScale") =>
        LET e  == last'.e
            vx == last'.v
            vy == IF last'.w = Undef THEN last'.v ELSE last'.w
        IN  /\ \A c \in Kids(children, e) :
                 /\ scale'[c].x = scale[c].x + vx - scale[e].x
                 /\ scale'[c].y = scale[c].y + vy - scale[e].y
            /\ scale'[e] = [x |-> vx, y |-> vy] ]_vars

\* C4 as stated: opacity = o on an entity whose parent has final opacity f
\* sets the entity's final opacity to f * o, for every number f, 0 included,
\* and to o when there is no parent or the parent's final opacity is
\* undefined.
C4_FinalOpacityProduct ==
  [][ \A e \in Ent :
        (last'.op = "opacity" /\ last'.e = e /\ err' = "none") =>
          LET o == last'.v
              f == IF parent[e] = None THEN Undef ELSE finalOpacity(parent[e])
          IN  /\ parent[e] = None => finalOpacity(e)' = o
              /\ (parent[e] # None /\ f = Undef) => finalOpacity(e)' = o
              /\ (parent[e] # None /\ JsNum(f)) => finalOpacity(e)' = f * o ]_vars

\* the step is an addChild that returned
C5_Added == last'.op = "addChild" /\ err' = "none"

\* C5 as stated: addChild(child, {absolute: true}) leaves x, y, sx, sy of the
\* child as they are; addChild(child) sets them to the parent's value plus
\* the child's, both read before the call.
C5_AddChildPosition ==
  [][ C5_Added =>
        LET p == last'.e
            c == last'.c
        IN  IF last'.flag
            THEN x'[c] = x[c] /\ y'[c] = y[c] /\ sx'[c] = sx[c] /\ sy'[c] = sy[c]
            ELSE /\ x'[c] = JsAdd(x[p], x[c]) /\ y'[c] = JsAdd(y[p], y[c])
                 /\ sx'[c] = JsAdd(sx[p], sx[c]) /\ sy'[c] = JsAdd(sy[p], sy[c]) ]_vars

\* C5 amended: addChild writes child.x, child.y (absolute: true) or
\* parent.x + child.x, parent.y + child.y (otherwise) to the child's x and y,
\* and the child's position vector keeps them clamped to its bounds when
\* clamp() was called on it; sx and sy are left as they are (absolute: true)
\* or set to the parent's value plus the child's.
C5_AddChildPositionKept ==
  [][ C5_Added =>
        LET p == last'.e
            c == last'.c
        IN  IF last'.flag
            THEN /\ x'[c] = KeptX(c, x[c]) /\ y'[c] = KeptY(c, y[c])
                 /\ sx'[c] = sx[c] /\ sy'[c] = sy[c]
            ELSE /\ x'[c] = KeptX(c, JsAdd(x[p], x[c]))
                 /\ y'[c] = KeptY(c, JsAdd(y[p], y[c]))
                 /\ sx'[c] = JsAdd(sx[p], sx[c]) /\ sy'[c] = JsAdd(sy[p], sy[c]) ]_vars

\* a child at x = 2 was added, not absolute, to a parent at x = 5: it is at 7
C5_Witness ==
  /\ last.op = "addChild" /\ err = "none" /\ ~last.flag
  /\ last.e # last.c
  /\ x[last.e] = 5 /\ x[last.c] = 7 /\ ~pclamp[last.c].c

(* ---------------------------------------------------------------- *)
(* C6: render() call order                                           *)
(* ---------------------------------------------------------------- *)

Rank(c) ==
  CASE c.stage = "save" -> 1
    [] c.stage = "position" -> 2
    [] c.stage = "rotation" -> 3
    [] c.stage = "scale" -> 4
    [] c.stage = "anchor" -> 5
    [] c.stage = "alpha" -> 6
    [] c.stage = "draw" -> 7
    [] c.stage = "restore" -> 8

RECURSIVE Preorder(_, _), PreorderKids(_, _, _)

\* the entity, then each child's subtree in children order
Preorder(e, fuel) ==
  IF fuel = 0 THEN <<>> ELSE <<e>> \o PreorderKids(e, 1, fuel)

PreorderKids(e, i, fuel) ==
  IF i > Len(children[e]) THEN <<>>
  ELSE Preorder(children[e][i], fuel - 1) \o PreorderKids(e, i + 1, fuel)

IsSave(c) == c.fn = "save"
Savers == LET s == SelectSeq(calls, IsSave) IN [i \in 1..Len(s) |-> s[i].who]

Rendered == last.op = "render" /\ err = "none"

\* C6: one render() call issues, in this order, save; translate(viewX,
\* viewY) if either is nonzero; rotate(rotation) if nonzero; scale(scale.x,
\* scale.y) unless both are 1; translate(-width*anchor.x, -height*anchor.y)
\* if either is nonzero; globalAlpha = finalOpacity; the draw routine exactly
\* once; restore; and only then render() on each child, in children order.
C6_RenderOrder ==
  Rendered =>
    LET n == Len(calls) IN
    /\ n >= 4
    /\ calls[n].fn = "restore"
    /\ \A i \in 1..(n - 1) :
         IF calls[i].fn = "restore"
         THEN calls[i + 1].fn = "save"
         ELSE /\ calls[i + 1].who = calls[i].who
              /\ Rank(calls[i + 1]) > Rank(calls[i])
    /\ \A i \in 1..n :
         LET c == calls[i] IN
         /\ c.fn = "restore" =>
              /\ i > 3
              /\ calls[i - 1].fn = "_rf"
              /\ calls[i - 2].fn = "globalAlpha"
              /\ calls[i - 2].a = finalOpacity(c.who)
         /\ c.fn = "save" =>
              /\ (calls[i + 1].stage = "position")
                   = (JsTruthy(JsSub(x[c.who], sx[c.who]))
                        \/ JsTruthy(JsSub(y[c.who], sy[c.who])))
              /\ (\E j \in 1..3 : i + j <= n /\ calls[i + j].who = c.who
                                  /\ calls[i + j].stage = "rotation")
                   = JsTruthy(rot[c.who])
              /\ (\E j \in 1..4 : i + j <= n /\ calls[i + j].who = c.who
                                  /\ calls[i + j].stage = "scale")
                   = (scale[c.who].x # 1 \/ scale[c.who].y # 1)
              /\ (\E j \in 1..5 : i + j <= n /\ calls[i + j].who = c.who
                                  /\ calls[i + j].stage = "anchor")
                   = (JsTruthy(JsMul(JsNeg(width[c.who]), anchor[c.who].x))
                        \/ JsTruthy(JsMul(JsNeg(height[c.who]), anchor[c.who].y)))
         /\ c.stage = "position" =>
              /\ c.fn = "translate"
              /\ c.a = JsSub(x[c.who], sx[c.who])
              /\ c.b = JsSub(y[c.who], sy[c.who])
         /\ c.stage = "rotation" => c.fn = "rotate" /\ c.a = rot[c.who]
         /\ c.stage = "scale" =>
              c.fn = "scale" /\ c.a = scale[c.who].x /\ c.b = scale[c.who].y
         /\ c.stage = "anchor" =>
              /\ c.fn = "translate"
              /\ c.a = JsMul(JsNeg(width[c.who]), anchor[c.who].x)
              /\ c.b = JsMul(JsNeg(height[c.who]), anchor[c.who].y)
    /\ Savers = Preorder(last.e, Fuel)

\* an entity with two children was rendered and issued all eight calls
C6_Witness ==
  /\ Rendered
  /\ Len(children[last.e]) = 2
  /\ children[last.e][1] # children[last.e][2]
  /\ Len(calls) >= 8
  /\ \A k \in 1..8 : Rank(calls[k]) = k /\ calls[k].who = last.e

(* ---------------------------------------------------------------- *)
(* C7: the skipped transforms                                        *)
(* ---------------------------------------------------------------- *)

Issued(fn) == \E i \in 1..Len(calls) : calls[i].fn = fn
IssuedBy(e, stage) ==
  \E i \in 1..Len(calls) : calls[i].who = e /\ calls[i].stage = stage

\* C7: render() issues no translate call when viewX = 0 and viewY = 0, no
\* rotate call when rotation = 0 and no scale call when scale.x = 1 and
\* scale.y = 1, for every combination of width, height, anchor, opacity and
\* children.
C7_SkipsForEveryCombination ==
  Rendered =>
    /\ (viewX(last.e) = 0 /\ viewY(last.e) = 0) => ~Issued("translate")
    /\ rot[last.e] = 0 => ~Issued("rotate")
    /\ (scale[last.e].x = 1 /\ scale[last.e].y = 1) => ~Issued("scale")

\* C7 as the code has it: an entity's render() issues no translate for its
\* position when viewX = 0 and viewY = 0, no rotate when its rotation = 0 and
\* no scale when its scale is (1, 1); this holds for every entity rendered
\* by the call. The anchor translate and the children's own calls remain.
C7_SkipsOwnTransforms ==
  Rendered =>
    \A e \in Ent :
      /\ (viewX(e) = 0 /\ viewY(e) = 0) => ~IssuedBy(e, "position")
      /\ rot[e] = 0 => ~IssuedBy(e, "rotation")
      /\ (scale[e].x = 1 /\ scale[e].y = 1) => ~IssuedBy(e, "scale")

\* an entity at x = sx = 2 with no rotation and scale (1, 1), an anchor and a
\* child was rendered: its only transform is the anchor translate
C7_Witness ==
  /\ Rendered
  /\ x[last.e] = 2 /\ sx[last.e] = 2 /\ viewY(last.e) = 0
  /\ rot[last.e] = 0 /\ scale[last.e] = [x |-> 1, y |-> 1]
  /\ children[last.e] # <<>>
  /\ IssuedBy(last.e, "anchor")
  /\ calls[2].stage = "anchor"

(* ---------------------------------------------------------------- *)
(* C8: render() is idempotent                                        *)
(* ---------------------------------------------------------------- *)

\* C8: render() changes no entity property; a render() that repeats the
\* call before it issues the same context calls; an entity's translate,
\* rotate and scale arguments are its current property values.
C8_RenderIdempotent ==
  [][(last'.op = "render" /\ err' = "none") =>
       /\ UNCHANGED props
       /\ (last.op = "render" /\ last.e = last'.e /\ err = "none") => calls' = calls
       /\ \A i \in 1..Len(calls') :
            LET c == calls'[i] IN
            /\ c.stage = "position" =>
                 c.a = JsSub(x[c.who], sx[c.who]) /\ c.b = JsSub(y[c.who], sy[c.who])
            /\ c.stage = "rotation" => c.a = rot[c.who]
            /\ c.stage = "scale" => c.a = scale[c.who].x /\ c.b = scale[c.who].y]_vars

\* a parent with a child was rendered twice in a row, with a translate call
C8_Witness ==
  /\ Rendered /\ again
  /\ children[last.e] # <<>>
  /\ IssuedBy(last.e, "position")

(* ---------------------------------------------------------------- *)
(* C9: isAlive()                                                     *)
(* ---------------------------------------------------------------- *)

\* C9: isAlive() returns true exactly when ttl > 0.
C9_IsAliveIffTtlPositive ==
  last.op = "isAlive" =>
    (alive <=> (JsNum(ttl[last.e]) /\ ttl[last.e] > 0))

\* isAlive() has answered true for ttl = 1 with another entity at ttl = 0
C9_Witness ==
  /\ last.op = "isAlive" /\ alive
  /\ ttl[last.e] = 1
  /\ \E e \in Ent : e # last.e /\ ttl[e] = 0

(* ---------------------------------------------------------------- *)
(* C10: writes to the read-only derived properties                   *)
(* ---------------------------------------------------------------- *)

\* C10: a write to viewX, viewY, scaledWidth, scaledHeight or finalOpacity
\* is accepted without error and changes nothing: a later read returns the
\* derived value.
C10_DerivedWritesIgnored ==
  [][last'.op \in Derived =>
       /\ err' = "none"
       /\ UNCHANGED props
       /\ \A p \in Derived, e \in Ent : Read(p, e)' = Read(p, e)]_vars

(* ---------------------------------------------------------------- *)
(* C11: Vector clamp                                                 *)
(* ---------------------------------------------------------------- *)

\* the step is a write of x (resp. y) to a Vector on which clamp() was called
C11_WroteX(i) == last'.op = "Vector.x" /\ last'.e = i /\ vec[i].cl.c
C11_WroteY(i) == last'.op = "Vector.y" /\ last'.e = i /\ vec[i].cl.c

\* C11 as stated: once clamp(xMin, yMin, xMax, yMax) was called on a Vector,
\* a write to x stores min(max(xMin, value), xMax), a write to y stores
\* min(max(yMin, value), yMax), and after the write the stored x and y lie
\* within the bounds.
C11_WithinBoundsAfterWrite ==
  [][\A i \in VecId :
       LET cl == vec[i].cl
           in == /\ cl.a <= vec'[i].x /\ vec'[i].x <= cl.d
                 /\ cl.b <= vec'[i].y /\ vec'[i].y <= cl.e
       IN  /\ C11_WroteX(i) => vec'[i].x = Kept(TRUE, cl.a, cl.d, last'.v) /\ in
           /\ C11_WroteY(i) => vec'[i].y = Kept(TRUE, cl.b, cl.e, last'.v) /\ in]_vars

\* C11 amended: once clamp() was called on a Vector (with xMin <= xMax and
\* yMin <= yMax), a write of a number to x stores min(max(xMin, value), xMax),
\* which lies within xMin..xMax, and leaves y as it is; likewise for y.  A
\* write of NaN stores NaN, and a component not written since clamp() keeps
\* the value it had.
C11_WrittenComponentClamped ==
  [][\A i \in VecId :
       LET cl == vec[i].cl
           v  == last'.v
       IN  /\ C11_WroteX(i) =>
                /\ vec'[i].x = Kept(TRUE, cl.a, cl.d, v)
                /\ JsNum(v) => (cl.a <= vec'[i].x /\ vec'[i].x <= cl.d)
                /\ vec'[i].y = vec[i].y
                /\ vec'[i].cl = cl
           /\ C11_WroteY(i) =>
                /\ vec'[i].y = Kept(TRUE, cl.b, cl.e, v)
                /\ JsNum(v) => (cl.b <= vec'[i].y /\ vec'[i].y <= cl.e)
                /\ vec'[i].x = vec[i].x
                /\ vec'[i].cl = cl]_vars

\* a Vector with y = 5 was clamped to (0, 0, 4, 4) and then written x = 5: it
\* holds x = 4 and still y = 5
C11_Witness ==
  /\ last.op = "Vector.x" /\ last.v = 5
  /\ vec[last.e].cl.c /\ vec[last.e].cl.d = 4
  /\ vec[last.e].x = 4 /\ vec[last.e].y = 5

(* ---------------------------------------------------------------- *)
(* C12: addChild appends                                             *)
(* ---------------------------------------------------------------- *)

\* C12: a call p.addChild(c) on a composed grouping entity is a call of a
\* method the entity has; it appends c as the last element of p's children,
\* leaves the existing children and every other entity's children as they
\* are, and sets c.parent to p.
C12_AddChildAppends ==
  [][last'.op = "addChild" =>
       /\ err' # "TypeError"
       /\ err' = "none" =>
            /\ children' = [children EXCEPT ![last'.e] = Append(@, last'.c)]
            /\ parent' = [parent EXCEPT ![last'.c] = last'.e]]_vars

(* ---------------------------------------------------------------- *)
(* C13: removeChild                                                  *)
(* ---------------------------------------------------------------- *)

\* the sequence s without the entity c, the others in their order
C13_Without(s, c) == LET keep(k) == k # c IN SelectSeq(s, keep)

\* C13: p.removeChild(c) raises no error; when c is in p's children it
\* removes c from them, keeping the order of the others, and sets c.parent
\* to null; when c is not in p's children, the children and c.parent are
\* left as they are.
C13_RemoveChild ==
  [][last'.op = "removeChild" =>
       LET p == last'.e
           c == last'.c
       IN  /\ err' = "none"
           /\ IF c \in Kids(children, p)
              THEN /\ children' = [children EXCEPT ![p] = C13_Without(@, c)]
                   /\ parent' = [parent EXCEPT ![c] = None]
              ELSE children' = children /\ parent' = parent]_vars

(* ---------------------------------------------------------------- *)
(* C14: fan-out through nested groups                                *)
(* ---------------------------------------------------------------- *)

\* the chains g -> q -> c below the entity written by the step: q differs
\* from g, c from both
C14_Chains ==
  {ch \in Ent \X Ent :
     /\ ch[1] \in Kids(children, last'.e) /\ ch[2] \in Kids(children, ch[1])
     /\ ch[1] # last'.e /\ ch[2] # last'.e /\ ch[2] # ch[1]}

\* the entities of every chain moved by v - (g's previous value) on property
\* f, whose values after the step are in g
C14_SameDelta(f, g) ==
  \A ch \in C14_Chains :
    LET delta == JsSub(last'.v, f[last'.e])
    IN  /\ g[ch[1]] = JsAdd(f[ch[1]], delta)
        /\ g[ch[2]] = JsAdd(f[ch[2]], delta)

\* C14: for a chain G -> P -> C built with addChild, a write G.p = v for p in
\* {x, y, sx, sy, rotation} changes P.p and C.p by the same delta, v - (the
\* previous G.p).
C14_NestedFanOut ==
  [][ /\ WroteTree("x") => C14_SameDelta(x, x')
      /\ WroteTree("y") => C14_SameDelta(y, y')
      /\ WroteTree("sx") => C14_SameDelta(sx, sx')
      /\ WroteTree("sy") => C14_SameDelta(sy, sy')
      /\ WroteTree("rotation") => C14_SameDelta(rot, rot') ]_vars

(* ---------------------------------------------------------------- *)
(* C15: a repeated write changes nothing                             *)
(* ---------------------------------------------------------------- *)

\* C15: a write P.p = v that repeats the call before it (the same P, p and
\* v, both returned) leaves P and all its descendants in the state the
\* first write left them in, whatever the clamp configuration of the
\* position vectors.
C15_RepeatedWriteIdempotent ==
  [][(/\ last'.op \in {"x", "y", "sx", "sy", "rotation"}
      /\ again'
      /\ err' = "none")
       => UNCHANGED <<x, y, sx, sy, rot>>]_vars

(* ---------------------------------------------------------------- *)
(* C16: the opacity chain                                            *)
(* ---------------------------------------------------------------- *)

\* how often entity c is listed as a child, over all entities
C16_Listed(c) ==
  Cardinality({pi \in Ent \X (1..MaxKids) :
                 pi[2] <= Len(children[pi[1]]) /\ children[pi[1]][pi[2]] = c})

\* the entities form trees: nobody is listed twice or is its own descendant,
\* and a listed entity points back at the entity that lists it
C16_Trees ==
  \A e \in Ent :
    /\ C16_Listed(e) <= 1
    /\ TreeBelow(children, e)
    /\ \A c \in Kids(children, e) : parent[c] = e

\* C16: after any sequence of addChild calls and opacity writes on the
\* entities of a tree, every entity's finalOpacity is its own opacity
\* multiplied by its parent's finalOpacity, and its own opacity when it has
\* no parent.
C16_OpacityChain ==
  (C16_Trees /\ err = "none") =>
    \A e \in Ent :
      finalOpacity(e) = IF parent[e] = None THEN opacity[e]
                        ELSE JsMul(opacity[e], finalOpacity(parent[e]))

\* ------------------------------------------------------------------ C17
C17_Arithmetic == {"Vector.add", "Vector.subtract", "Vector.scale",
                   "Vector.normalize"}

\* v is within the bounds lo..hi
C17_Within(lo, hi, v) == JsNum(v) /\ lo <= v /\ v <= hi

\* C17: every Vector arithmetic operation (add, subtract, scale, normalize)
\* leaves its operands unchanged, and the Vector it returns has the clamp
\* bounds of the left operand, with x and y clamped to those bounds
C17_ResultInheritsClamp ==
  [][last'.op \in C17_Arithmetic =>
       /\ vec' = vec
       /\ out'.cl = vec[last'.e].cl
       /\ out'.cl.c => /\ C17_Within(out'.cl.a, out'.cl.d, out'.x)
                       /\ C17_Within(out'.cl.b, out'.cl.e, out'.y)]_vars

\* ------------------------------------------------------------------ C18
\* the time delta of a call of add: 1 when the argument is omitted
C18_Dt(dt) == IF dt = Undef THEN 1 ELSE dt

\* C18: add(other, dt) returns the Vector with the components
\* (x + other.x * dt, y + other.y * dt), dt being 1 when it is omitted
C18_AddScalesByDt ==
  [][last'.op = "Vector.add" =>
       LET this  == vec[last'.e]
           other == vec[last'.c]
           dt    == C18_Dt(last'.v)
       IN  out' = Vector(JsAdd(this.x, JsMul(other.x, dt)),
                         JsAdd(this.y, JsMul(other.y, dt)), this.cl)]_vars

\* ------------------------------------------------------------------ C19
\* C19: after an entity is constructed with a children and a scale property,
\* every entry of children has the entity as its parent, as addChild leaves
\* it, and the entity's scale is the one setScale(scale.x, scale.y) stores
C19_ChildrenAndScaleThroughMethods ==
  [][last'.op = "GameObject" =>
       LET e == last'.e
       IN  /\ \A i \in 1..Len(children'[e]) : parent'[children'[e][i]] = e
           /\ scale'[e] = [x |-> last'.v, y |-> DefaultY(last'.v, last'.w)]]_vars

\* ------------------------------------------------------------------ C20
SpecCompose ==
  Init /\ [][AddChild \/ SetX \/ SetScale \/ SetOpacity]_vars

\* the value property p of child c has after a fan-out write of v to e, f
\* being the values before the write
C20_Handed(p, f, c, e, v) == StoreOf(p, c, ChildValue(f[c], v, f[e]))

\* C20: on entities the composer built with grouping, a write to x, y, sx,
\* sy, rotation or opacity of a parent, or a call of its setScale, reaches
\* every child: the definition in effect under each of these names is the
\* fan-out one, whatever another fragment defines under the same name
C20_FanOutInEffect ==
  [][(err' = "none" /\ C16_Trees) =>
       LET e == last'.e
           v == last'.v
       IN  \A c \in Kids(children, e) :
             /\ last'.op = "x" => x'[c] = C20_Handed("x", x, c, e, v)
             /\ last'.op = "y" => y'[c] = C20_Handed("y", y, c, e, v)
             /\ last'.op = "sx" => sx'[c] = C20_Handed("sx", sx, c, e, v)
             /\ last'.op = "sy" => sy'[c] = C20_Handed("sy", sy, c, e, v)
             /\ last'.op = "rotation" =>
                  rot'[c] = C20_Handed("rotation", rot, c, e, v)
             /\ last'.op = "setScale" =>
                  scale'[c] = [x |-> ChildScale(scale[c].x, v, scale[e].x),
                               y |-> ChildScale(scale[c].y, DefaultY(v, last'.w),
                                                scale[e].y)]
             /\ last'.op = "opacity" =>
                  fop'[c] = IF ParentFopUsable(fop'[e])
                            THEN JsMul(opacity[c], fop'[e])
                            ELSE opacity[c]]_vars

\* ------------------------------------------------------------------ C21
\* C21: an entity constructed with no configuration has x = 0 and y = 0,
\* width = 0 and height = 0, and ttl = Infinity, so that isAlive() is true.
C21_Defaults ==
  last.op = "init" =>
    \A e \in Ent :
      /\ x[e] = 0 /\ y[e] = 0
      /\ width[e] = 0 /\ height[e] = 0
      /\ ttl[e] = Infinity
      /\ isAlive(e)

\* ------------------------------------------------------------------ C22
SpecPosition == Init /\ [][SetX \/ SetY \/ SetDx \/ Advance]_vars

\* C22: in every reachable state x = position.x and y = position.y, after
\* writes to x and y and after advance has replaced the position, with or
\* without the grouping fragment.
C22_XIsPositionX ==
  \A e \in Ent : x[e] = Position(e).x /\ y[e] = Position(e).y

\* ------------------------------------------------------------------ C23
\* C23: the composer installs a fragment's definitions before it runs the
\* fragment's initializer, so the value an initializer writes is what the
\* accessor returns after construction: rotation is 0, opacity and
\* finalOpacity are 1.
C23_InitializerValuesKept ==
  last.op = "init" =>
    \A e \in Ent : rot[e] = 0 /\ opacity[e] = 1 /\ finalOpacity(e) = 1

\* ------------------------------------------------------------------ C24
SpecMotion == Init /\ [][SetDx \/ SetDdx \/ Advance \/ Update]_vars

\* the Vector (x + other.x * dt, y + other.y * dt) with the clamp bounds of
\* this, dt being 1 when it is omitted
C24_Plus(this, other, dt) ==
  LET k == IF dt = Undef THEN 1 ELSE dt
  IN  Vector(JsAdd(this.x, JsMul(other.x, k)),
             JsAdd(this.y, JsMul(other.y, k)), this.cl)

\* C24: advance(dt) replaces velocity by velocity + acceleration * dt and
\* then position by position + (the new velocity) * dt, and leaves the
\* acceleration as it is.
C24_AdvanceIntegrates ==
  [][\A e \in Ent :
       (last'.op \in {"advance", "update"} /\ last'.e = e) =>
         /\ velocity'[e] = C24_Plus(velocity[e], acceleration[e], last'.v)
         /\ Position(e)' = C24_Plus(Position(e), velocity'[e], last'.v)
         /\ acceleration' = acceleration]_vars

\* ------------------------------------------------------------------ C25
SpecLifetime == Init /\ [][SetTtl \/ Advance \/ Update \/ IsAlive]_vars

\* the step is an advance() or update() call on entity e
C25_Advanced(e) == last'.op \in {"advance", "update"} /\ last'.e = e

\* C25: an update() or advance() call decrements the entity's ttl by exactly
\* 1, whatever dt is, and leaves the ttl of the others alone; so an entity
\* of ttl n >= 1 is alive after the call exactly when n > 1, an entity that
\* is not alive does not become alive by it, and an entity of ttl Infinity
\* stays at Infinity and alive.
C25_TtlDecrementsByOne ==
  [][\A e \in Ent :
       C25_Advanced(e) =>
         /\ \A o \in Ent \ {e} : ttl'[o] = ttl[o]
         /\ (JsNum(ttl[e]) /\ ttl[e] # Infinity) =>
              /\ ttl'[e] = ttl[e] - 1
              /\ isAlive(e)' <=> ttl[e] > 1
         /\ ~isAlive(e) => ~isAlive(e)'
         /\ ttl[e] = Infinity => (ttl'[e] = Infinity /\ isAlive(e)')]_vars

\* an entity of ttl 1 was advanced with dt = 2: its ttl is 0 and it is not
\* alive, while another entity has ttl Infinity
C25_Witness ==
  /\ last.op = "advance" /\ last.v = 2
  /\ ttl[last.e] = 0 /\ ~isAlive(last.e)
  /\ \E e \in Ent : ttl[e] = Infinity /\ isAlive(e)

\* ------------------------------------------------------------------ C26
C26_Cascading == {"x", "y", "sx", "sy", "rotation", "opacity", "setScale",
                  "addChild"}

\* C26: whatever structure addChild and removeChild calls have built, a
\* write to x, y, sx, sy, rotation or opacity, a setScale call and an
\* addChild call return: the cascade through the children ends.
C26_CascadeTerminates ==
  [][last'.op \in C26_Cascading => err' # "RangeError"]_vars

\* ------------------------------------------------------------------ C27
\* position writes and advance() on parents and children
SpecOffset ==
  Init /\ [][AddChild \/ SetX \/ SetDx \/ Advance]_vars

\* the children of e, each listed once and none of them e itself
C27_OwnKids(e) ==
  {c \in Kids(children, e) : c # e /\ C16_Listed(c) = 1}

\* C27: once C was added to P, C.x - P.x and C.y - P.y are the same after a
\* write to P.x or P.y and after update() or advance() has moved P.
C27_OffsetKept ==
  [][\A p \in Ent :
       (/\ last'.op \in {"x", "y", "advance", "update"}
        /\ last'.e = p /\ err' = "none" /\ C16_Trees) =>
         \A c \in C27_OwnKids(p) :
           /\ JsSub(x'[c], x'[p]) = JsSub(x[c], x[p])
           /\ JsSub(y'[c], y'[p]) = JsSub(y[c], y[p])]_vars

\* ------------------------------------------------------------------ C28
\* the value f[c] of the child is rewritten by addChild, from f to g, only
\* when the child has one and absolute is false
C28_OnlyRelative(f, g, p, c, absolute) ==
  /\ absolute => g[c] = f[c]
  /\ f[c] = Undef => g[c] = Undef
  /\ (~absolute /\ f[c] # Undef) => g[c] = JsAdd(f[p], f[c])

\* C28: addChild rewrites the child's rotation, sx and sy only when the
\* child has the property and absolute is false; with absolute: true they
\* are left as they are, and a child without a value for x, y, rotation, sx
\* or sy is not given one (neither undefined nor NaN is written).
C28_RewritesOnlyRelative ==
  [][(last'.op = "addChild" /\ err' = "none") =>
       LET p == last'.e
           c == last'.c
       IN  /\ C28_OnlyRelative(rot, rot', p, c, last'.flag)
           /\ C28_OnlyRelative(sx, sx', p, c, last'.flag)
           /\ C28_OnlyRelative(sy, sy', p, c, last'.flag)
           /\ x[c] = Undef => x'[c] = Undef
           /\ y[c] = Undef => y'[c] = Undef]_vars

\* ------------------------------------------------------------------ C29
\* how often c occurs in the children of p
C29_Count(p, c) ==
  Cardinality({i \in 1..Len(children[p]) : children[p][i] = c})

\* C29: after any sequence of addChild and removeChild calls, c occurs in
\* p.children if and only if c.parent is p, and then exactly once: no entity
\* is listed under two parents or twice under one.
C29_ParentChildrenConsistent ==
  err = "none" =>
    \A p \in Ent, c \in Ent :
      /\ (C29_Count(p, c) > 0) <=> (parent[c] = p)
      /\ C29_Count(p, c) <= 1

\* the size of the pool is within its objects, and its objects within maxSize
C30_Within == 0 <= pool.size /\ pool.size <= Len(pool.objects)
                /\ Len(pool.objects) <= pool.maxSize

\* a get() made at size = maxSize returned undefined and left size and
\* objects as they were
C30_FullGet ==
  (last'.op = "Pool.get" /\ pool.size = pool.maxSize) =>
    /\ pool'.ret = Undef
    /\ pool'.size = pool.size
    /\ pool'.objects = pool.objects

\* C30: for a Pool of any maxSize >= 0, after any sequence of get, update and
\* clear calls 0 <= size <= objects.length <= maxSize, and a get() made when
\* size = maxSize returns undefined and changes neither size nor objects.
C30_PoolWithinMaxSize == [](HasPool => C30_Within) /\ [][C30_FullGet]_vars

====
